---- MODULE Spec2Model ----
(***************************************************************************)
(* Snow drift transport of the IND320 dashboard: the calculation functions *)
(* of pages/8_snow_drift.py (repeated in pages/3_Advanced_Tools/           *)
(* 1_Snow_drift.py) and the page script that downloads the hourly weather  *)
(* of each year, labels the seasons and computes the yearly, monthly and   *)
(* wind-rose results.                                                      *)
(* The session shared by the pages (st.session_state, the map pages        *)
(* pages/7_map.py and pages/2_Energy_Analysis/3_Map.py, the guard of the   *)
(* snow-drift pages) and the weather loaders of utils/data_loader.py       *)
(* follow.                                                                 *)
(*                                                                         *)
(* Numbers.  The code computes on floats; the model computes the same      *)
(* expressions exactly, on integers that count fixed fractions of a unit:  *)
(*   wind speed             whole m/s                                      *)
(*   u ** 3.8               1/Pow38Den          (tabulated, Pow38)         *)
(*   direction              1/DirDen degree                                *)
(*   temperature            1/TempDen degree C                             *)
(*   precipitation, Swe     1/SweDen mm                                    *)
(*   theta                  1/ThetaDen                                     *)
(*   Srwe                   1/(ThetaDen*SweDen) mm                         *)
(*   Qupot, Qspot, Qinf     1/QDen kg/m                                    *)
(*   0.14 ** (F/T)          1/SatDen            (tabulated, Pow014)        *)
(*   Qt                     1/(QDen*SatDen) kg/m                           *)
(* The denominators are chosen so that every division of the code is exact *)
(* on the modelled inputs and every product stays below 2^31.              *)
(***************************************************************************)
EXTENDS Integers, Sequences, FiniteSets, TLC

VARIABLES
    pc,            \* position of the page script / of the function call
    start_year,    \* year range slider, low end
    end_year,      \* year range slider, high end
    year,          \* loop variable of the download loop
    dfs,           \* list of the frames downloaded so far
    df_all,        \* pd.concat(dfs)
    yearly_df,     \* rows of compute_yearly_results
    monthly_df,    \* rows of the monthly loop
    sectors_list,  \* one sector table per season group (wind rose loop)
    avg_sectors,   \* np.mean(sectors_list, axis=0)
    overall_avg,   \* yearly_df['Qt (kg/m)'].mean()
    cache,         \* st.cache_data of download_weather_data: year -> frame
    first_run,     \* history: <<what the first run ended with>>, once rerun
    args,          \* arguments of the function call under check
    ret,           \* what the call returned or raised
    errors,        \* the years the run reported with st.error
    session_state, \* st.session_state: key -> value, for the keys that are set
    out,           \* value of the st_folium components: key -> last_clicked
    page,          \* the page whose script the session runs
    reruns,        \* st.rerun() calls since the user's last action
    http_log       \* the requests.get calls made so far

vars == <<pc, start_year, end_year, year, dfs, df_all, yearly_df, monthly_df,
          sectors_list, avg_sectors, overall_avg, cache, first_run,
          args, ret, errors, session_state, out, page, reruns, http_log>>

sessionVars == <<session_state, out, page, reruns, http_log>>

pageVars == <<start_year, end_year, year, dfs, df_all, yearly_df, monthly_df,
              sectors_list, avg_sectors, overall_avg, cache, first_run,
              errors, sessionVars>>

(***************************************************************************)
(* Units                                                                   *)
(***************************************************************************)
Pow38Den == 10 * 10
DirDen == 2 ^ 9
TempDen == 2 * 5
ThetaDen == 1 + 1
SatDen == 10 * 10 * 10
\* 233847 = 9 * 25983; one mm of water is SweDen units, one kg/m is QDen units
SweDen == 233847 \div 9
QDen == 4 * SweDen

(***************************************************************************)
(* Bounds of the checked inputs                                            *)
(***************************************************************************)
MaxSpeed == 3
MaxWind == 2
MaxTurns == 1

(***************************************************************************)
(* Program constants                                                       *)
(***************************************************************************)
DT == 3600
DIVISOR == 233847
NSECTORS == 16

\* float('nan'): what pd.to_numeric(..., errors="coerce") leaves where the
\* response holds no number.  It is written as an integer that no modelled
\* quantity takes; every operator below that can meet it tests for it first.
NaN == -(2 ^ 30)

\* the float operator + where an operand may be nan
nan_add(a, b) == IF a = NaN \/ b = NaN THEN NaN ELSE a + b

\* Python's left-to-right sum() of a list
RECURSIVE SumSeq(_)
SumSeq(s) ==
    IF s = <<>> THEN 0
    ELSE nan_add(SumSeq(SubSeq(s, 1, Len(s) - 1)), s[Len(s)])

\* u ** 3.8 for the modelled speeds, in 1/Pow38Den, rounded to nearest
Pow38(u) ==
    CASE u = 0 -> 0
      [] u = 1 -> 100
      [] u = 2 -> 1393
      [] u = 3 -> 6502
      [] u = 4 -> 19401
      [] u = 5 -> 45299

\* x / 233847 for x in Pow38Den-ths, as a count of 1/QDen:
\* x * QDen / (Pow38Den * 233847), and QDen divides Pow38Den * 233847
DivBy233847(x) == x \div ((Pow38Den * DIVISOR) \div QDen)

\* the per-hour term ((u ** 3.8) * dt) / 233847 of compute_sector_transport
\* (nan ** 3.8 is nan, and so are its product and quotient)
HourTerm(u, dt) == IF u = NaN THEN NaN ELSE DivBy233847(Pow38(u) * dt)

compute_Qupot_cubic(hourly_wind_speeds, dt) ==
    DivBy233847(SumSeq([i \in 1..Len(hourly_wind_speeds) |->
                           (hourly_wind_speeds[i] * hourly_wind_speeds[i]
                              * hourly_wind_speeds[i] * Pow38Den) * dt]))

\* a nan speed makes its term nan, and then the sum and the quotient
compute_Qupot(hourly_wind_speeds, dt) ==
    LET total == SumSeq([i \in 1..Len(hourly_wind_speeds) |->
                            IF hourly_wind_speeds[i] = NaN THEN NaN
                            ELSE Pow38(hourly_wind_speeds[i]) * dt])
    IN  IF total = NaN THEN NaN ELSE DivBy233847(total)

(***************************************************************************)
(* sector_index: int(((direction + 11.25) % 360) // 22.5)                  *)
(***************************************************************************)
HALF_SECTOR == (45 * DirDen) \div 4     \* 11.25 degrees
SECTOR_WIDTH == (45 * DirDen) \div 2    \* 22.5 degrees
FULL_CIRCLE == 360 * DirDen

sector_index_unshifted(direction) ==
    (direction % FULL_CIRCLE) \div SECTOR_WIDTH

\* Directions are binary floats.  The model keeps the rounding of a binary
\* float with a significand of 13 bits (MANT), counted in 1/DirDen degree:
\* every quarter degree below 2048 degrees is such a float, and so is the
\* float next to 11.25 degrees, 1/DirDen away from it.
MANT == 2 ^ 13

\* the spacing of the floats around x: the smallest power of two u with
\* |x| < u * MANT (never below the model's unit)
RECURSIVE UlpFrom(_, _)
UlpFrom(u, x) == IF x < u * MANT THEN u ELSE UlpFrom(2 * u, x)

Ulp(x) == UlpFrom(1, IF x < 0 THEN -x ELSE x)

\* round to nearest float, ties to the even significand
RoundFloat(x) ==
    LET u == Ulp(x)
        q == x \div u
        r == x - q * u
    IN  IF 2 * r < u THEN q * u
        ELSE IF 2 * r > u THEN (q + 1) * u
        ELSE IF q % 2 = 0 THEN q * u ELSE (q + 1) * u

\* the float operator +
float_add(a, b) == RoundFloat(a + b)

\* C fmod: the exact remainder, with the sign of vx
fmod(vx, wx) == IF vx >= 0 THEN vx % wx ELSE -((-vx) % wx)

\* the float operator % (wx > 0): fmod, and a negative remainder has wx
\* added to it, which rounds
float_rem(vx, wx) ==
    LET mod == fmod(vx, wx)
    IN  IF mod < 0 THEN float_add(mod, wx) ELSE mod

sector_index(direction) ==
    float_rem(float_add(direction, HALF_SECTOR), FULL_CIRCLE) \div SECTOR_WIDTH

\* what a raised exception leaves the caller with
Raise(exc) == [outcome |-> exc]

\* v is what one of the exceptions of the sector loop left
Raised(v) == v = Raise("ValueError") \/ v = Raise("IndexError")

(***************************************************************************)
(* compute_sector_transport                                                *)
(***************************************************************************)
RECURSIVE SectorLoop(_, _, _, _)
SectorLoop(sectors, ws, wd, dt) ==
    IF ws = <<>> \/ wd = <<>> THEN sectors
    ELSE IF Head(wd) = NaN
    THEN Raise("ValueError")             \* int(nan) in sector_index
    ELSE LET idx == sector_index(Head(wd))
         IN  IF idx \notin DOMAIN sectors
             THEN Raise("IndexError")    \* sectors[16] of a list of 16
             ELSE SectorLoop([sectors EXCEPT
                                  ![idx] = nan_add(@, HourTerm(Head(ws), dt))],
                             Tail(ws), Tail(wd), dt)

RECURSIVE SectorLoopAssign(_, _, _, _)
SectorLoopAssign(sectors, ws, wd, dt) ==
    IF ws = <<>> \/ wd = <<>> THEN sectors
    ELSE LET idx == sector_index(Head(wd))
         IN  SectorLoopAssign([sectors EXCEPT ![idx] = HourTerm(Head(ws), dt)],
                              Tail(ws), Tail(wd), dt)

compute_sector_transport_assign(hourly_wind_speeds, hourly_wind_dirs, dt) ==
    SectorLoopAssign([i \in 0..(NSECTORS - 1) |-> 0],
                     hourly_wind_speeds, hourly_wind_dirs, dt)

\* sectors is indexed 0..15 as the Python list is
compute_sector_transport(hourly_wind_speeds, hourly_wind_dirs, dt) ==
    SectorLoop([i \in 0..(NSECTORS - 1) |-> 0],
               hourly_wind_speeds, hourly_wind_dirs, dt)

(***************************************************************************)
(* compute_snow_transport                                                  *)
(***************************************************************************)
\* 0.5 * T * Swe as a count of 1/QDen
HalfTSwe(T, Swe) == T * Swe * (QDen \div (2 * SweDen))

\* 0.5 * T * Srwe as a count of 1/QDen
HalfTSrwe(T, Srwe) == T * Srwe * (QDen \div (2 * ThetaDen * SweDen))

\* 0.14 ** (F / T) on the modelled ratios, in 1/SatDen, rounded to nearest
\* (0.14 ** 0.5 = 0.3742, 0.14 ** 2 = 0.0196, 0.14 ** 10 = 2.9e-9)
Pow014(F, T) ==
    CASE F = 0 -> SatDen
      [] F # 0 /\ 2 * F = T -> 374
      [] F # 0 /\ F = T -> 140
      [] F # 0 /\ F = 2 * T -> 20
      [] F # 0 /\ F = 10 * T -> 0
      [] F # 0 /\ F = 50 * T -> 0

RegimeGe(Qupot, Qspot, T, Srwe) ==
    IF Qupot >= Qspot
    THEN [Qinf |-> HalfTSrwe(T, Srwe), Control |-> "Snowfall controlled"]
    ELSE [Qinf |-> Qupot, Control |-> "Wind controlled"]

RegimeLt(Qupot, Qspot, T, Srwe) ==
    IF Qupot < Qspot
    THEN [Qinf |-> HalfTSrwe(T, Srwe), Control |-> "Snowfall controlled"]
    ELSE [Qinf |-> Qupot, Control |-> "Wind controlled"]

RegimeMin(Qupot, Qspot, T, Srwe) ==
    IF Qupot > Qspot
    THEN [Qinf |-> Qspot, Control |-> "Snowfall controlled"]
    ELSE [Qinf |-> Qupot, Control |-> "Wind controlled"]

\* lines 95-100: the regime decision (nan > Qspot is False)
Regime(Qupot, Qspot, T, Srwe) ==
    IF Qupot # NaN /\ Qupot > Qspot
    THEN [Qinf |-> HalfTSrwe(T, Srwe), Control |-> "Snowfall controlled"]
    ELSE [Qinf |-> Qupot, Control |-> "Wind controlled"]

SaturatePlus(Qinf, F, T) == Qinf * (SatDen + Pow014(F, T))

\* line 101: Qinf * (1 - 0.14 ** (F / T)), as a count of 1/(QDen*SatDen)
Saturate(Qinf, F, T) ==
    IF Qinf = NaN THEN NaN ELSE Qinf * (SatDen - Pow014(F, T))

\* F / T on numpy scalars: no exception, 0.14 ** inf = 0.0
compute_snow_transport_numpy(T, F, theta, Swe, hourly_wind_speeds, dt) ==
    LET Qupot == compute_Qupot(hourly_wind_speeds, dt)
        Qspot == HalfTSwe(T, Swe)
        Srwe == theta * Swe
        r == Regime(Qupot, Qspot, T, Srwe)
    IN  [outcome |-> "return", Qupot |-> Qupot, Qspot |-> Qspot, Srwe |-> Srwe,
         Qinf |-> r.Qinf,
         Qt |-> IF T = 0 THEN r.Qinf * SatDen ELSE Saturate(r.Qinf, F, T),
         Control |-> r.Control]

\* F / T raises ZeroDivisionError for T = 0 (Python int and float division)
compute_snow_transport(T, F, theta, Swe, hourly_wind_speeds, dt) ==
    LET Qupot == compute_Qupot(hourly_wind_speeds, dt)
        Qspot == HalfTSwe(T, Swe)
        Srwe == theta * Swe
        r == Regime(Qupot, Qspot, T, Srwe)
    IN  IF T = 0 THEN Raise("ZeroDivisionError")
        ELSE [outcome |-> "return", Qupot |-> Qupot, Qspot |-> Qspot,
              Srwe |-> Srwe, Qinf |-> r.Qinf, Qt |-> Saturate(r.Qinf, F, T),
              Control |-> r.Control]

(***************************************************************************)
(* State of a run that is not under way                                    *)
(***************************************************************************)
None == "None"

PageIdle ==
    /\ start_year = None /\ end_year = None /\ year = None
    /\ dfs = <<>> /\ df_all = <<>> /\ yearly_df = <<>> /\ monthly_df = <<>>
    /\ sectors_list = <<>>
    /\ avg_sectors = <<>> /\ overall_avg = <<>>
    /\ cache = <<>> /\ first_run = <<>>
    /\ errors = <<>>
    /\ session_state = <<>> /\ out = <<>> /\ page = None /\ reruns = 0
    /\ http_log = <<>>

(***************************************************************************)
(* Calls of compute_snow_transport on bounded arguments                    *)
(***************************************************************************)
WindSeqs == UNION {[1..n -> 0..MaxSpeed] : n \in 0..MaxWind}

TInputs == {0, 1, 2, 4}

FInputs(T) ==
    IF T = 0 THEN {0, 1}
    ELSE {0, T, 2 * T, 10 * T, 50 * T} \cup (IF T % 2 = 0 THEN {T \div 2} ELSE {})

\* 0, 1/2, 1 and one value above the valid range
ThetaInputs == 0..(ThetaDen + 1)

\* the Swe at which Qspot = Qupot, when it is on the grid
Crossing(T, ws) ==
    LET q == compute_Qupot(ws, DT)
        k == HalfTSwe(T, 1)
    IN  IF T > 0 /\ q % k = 0 THEN {q \div k} ELSE {}

\* no snow, 1 mm, and the Swe just below, at and just above the crossing
SweInputs(T, ws) ==
    ({0, SweDen} \cup {c + d : c \in Crossing(T, ws), d \in {-1, 0, 1}}) \ {-1}

InitTransport ==
    /\ pc = "call"
    /\ \E ws \in WindSeqs, T \in TInputs :
           \E F \in FInputs(T), th \in ThetaInputs, S \in SweInputs(T, ws) :
               args = [T |-> T, F |-> F, theta |-> th, Swe |-> S, ws |-> ws]
    /\ ret = None
    /\ PageIdle

CallSnowTransport ==
    /\ pc = "call"
    /\ ret' = compute_snow_transport(args.T, args.F, args.theta, args.Swe,
                                     args.ws, DT)
    /\ pc' = "returned"
    /\ UNCHANGED <<args, pageVars>>

NextTransport == CallSnowTransport

SpecTransport == InitTransport /\ [][NextTransport]_vars

(***************************************************************************)
(* Properties of compute_snow_transport (under SpecTransport)              *)
(***************************************************************************)
Returned == pc = "returned" /\ ret.outcome = "return"

AllZero(ws) == \A i \in 1..Len(ws) : ws[i] = 0

NonNegative(ws) == \A i \in 1..Len(ws) : ws[i] >= 0

Max(a, b) == IF a >= b THEN a ELSE b

\* C2: compute_snow_transport sets Qspot = 0.5*T*Swe and Srwe = theta*Swe and
\* decides the regime by the strict comparison Qupot > Qspot: if it holds the
\* result is 'Snowfall controlled' with Qinf = 0.5*T*Srwe, otherwise (also at
\* Qupot = Qspot) it is 'Wind controlled' with Qinf = Qupot.
C2_RegimeDecision ==
    Returned =>
        /\ ret.Qspot * 2 = (args.T * args.Swe) * (QDen \div SweDen)
        /\ ret.Srwe = args.theta * args.Swe
        /\ IF ret.Qupot > ret.Qspot
           THEN /\ ret.Control = "Snowfall controlled"
                /\ ret.Qinf * 2 * ThetaDen = (args.T * ret.Srwe) * (QDen \div SweDen)
           ELSE /\ ret.Control = "Wind controlled"
                /\ ret.Qinf = ret.Qupot

\* the boundary case: Qupot = Qspot > 0 was decided, and a strict one too
C2_Witness ==
    /\ Returned
    /\ ret.Qupot = ret.Qspot
    /\ ret.Qupot > 0
    /\ ret.Control = "Wind controlled"

\* C3: for every result with T > 0, F >= 0, theta in [0,1], Swe >= 0 and
\* non-negative wind speeds, Qinf <= max(Qupot, 0.5*T*Srwe) and 0 <= Qt <= Qinf.
C3_SaturationBounds ==
    (/\ Returned
     /\ args.T > 0 /\ args.F >= 0
     /\ args.theta >= 0 /\ args.theta <= ThetaDen
     /\ args.Swe >= 0 /\ NonNegative(args.ws)) =>
        /\ ret.Qinf <= Max(ret.Qupot, HalfTSrwe(args.T, ret.Srwe))
        /\ 0 <= ret.Qt
        /\ ret.Qt <= ret.Qinf * SatDen

\* a result strictly inside the bounds: 0 < Qt < Qinf
C3_Witness ==
    /\ Returned
    /\ args.T > 0 /\ args.theta <= ThetaDen
    /\ 0 < ret.Qt
    /\ ret.Qt < ret.Qinf * SatDen

\* C4: Qinf is the lesser of the two capacities: for every result with T > 0,
\* theta in [0,1], Swe >= 0 and non-negative wind speeds, Qinf <= Qupot and
\* Qinf <= Qspot.
C4_QinfIsBinding ==
    (/\ Returned
     /\ args.T > 0
     /\ args.theta >= 0 /\ args.theta <= ThetaDen
     /\ args.Swe >= 0 /\ NonNegative(args.ws)) =>
        /\ ret.Qinf <= ret.Qupot
        /\ ret.Qinf <= ret.Qspot

\* a snowfall-controlled result whose Qinf is strictly below both capacities
C4_Witness ==
    /\ Returned
    /\ args.T > 0 /\ args.theta <= ThetaDen
    /\ ret.Control = "Snowfall controlled"
    /\ ret.Qinf > 0
    /\ ret.Qinf < ret.Qspot
    /\ ret.Qspot < ret.Qupot

\* C5 as claimed: at Qupot = Qspot the wind-controlled value of Qinf (Qupot)
\* and the snowfall-controlled value (0.5*T*theta*Swe) agree, so Qinf has no
\* discontinuity at the crossing.
C5_BranchesAgree ==
    (Returned /\ ret.Qupot = ret.Qspot) =>
        ret.Qupot = HalfTSrwe(args.T, ret.Srwe)

\* C5 amended: with Qupot fixed and Swe varied, the control flips exactly at
\* the crossing (wind controlled at Qspot >= Qupot, snowfall controlled one
\* step of Swe below it); at Qupot = Qspot the result is wind controlled with
\* Qinf = Qupot, and the snowfall-controlled value is theta * Qupot, which
\* agrees with it only when theta = 1 or Qupot = 0; just below the crossing
\* Qinf is theta * Qspot.
C5_ThresholdFlip ==
    Returned =>
        /\ (ret.Control = "Wind controlled") <=> (ret.Qupot <= ret.Qspot)
        /\ ret.Qupot = ret.Qspot =>
            /\ ret.Qinf = ret.Qupot
            /\ HalfTSrwe(args.T, ret.Srwe) * ThetaDen = args.theta * ret.Qupot
            /\ (HalfTSrwe(args.T, ret.Srwe) = ret.Qupot)
                   <=> (args.theta = ThetaDen \/ ret.Qupot = 0)
            /\ args.Swe > 0 =>
                   LET below == compute_snow_transport(args.T, args.F, args.theta,
                                                       args.Swe - 1, args.ws, DT)
                   IN  /\ below.Control = "Snowfall controlled"
                       /\ below.Qinf * ThetaDen = args.theta * below.Qspot

\* the crossing with theta = 1/2: the two branch values differ
C5_Witness ==
    /\ Returned
    /\ ret.Qupot = ret.Qspot
    /\ ret.Qupot > 0
    /\ args.theta * 2 = ThetaDen
    /\ HalfTSrwe(args.T, ret.Srwe) < ret.Qinf

\* C6 as claimed: for a period in which every wind speed is 0, Qupot = 0, the
\* regime is always 'Snowfall controlled' and Qinf = 0.5*T*theta*Swe.
C6_ZeroWindSnowfall ==
    (Returned /\ AllZero(args.ws)) =>
        /\ ret.Qupot = 0
        /\ ret.Control = "Snowfall controlled"
        /\ ret.Qinf = HalfTSrwe(args.T, args.theta * args.Swe)

\* C6 amended: for a period in which every wind speed is 0, with T > 0 and
\* Swe >= 0, Qupot = 0, the regime is 'Wind controlled' (0 > Qspot is false)
\* and Qinf = Qupot = 0, so Qt = 0.
C6_ZeroWindIsWindControlled ==
    (Returned /\ AllZero(args.ws) /\ args.T > 0 /\ args.Swe >= 0) =>
        /\ ret.Qupot = 0
        /\ ret.Control = "Wind controlled"
        /\ ret.Qinf = 0
        /\ ret.Qt = 0

\* a calm period with snow on the ground and a fetch
C6_Witness ==
    /\ Returned
    /\ Len(args.ws) > 0 /\ AllZero(args.ws)
    /\ args.T > 0 /\ args.F > 0 /\ args.Swe > 0 /\ args.theta > 0
    /\ ret.Control = "Wind controlled"

\* C7: a call of compute_snow_transport with T = 0 ends in an error outcome:
\* no TransportResult (with an inf or NaN Qt or Qinf) is returned, for every
\* F, theta, Swe and wind-speed sequence.
C7_ZeroTRaises ==
    (pc = "returned" /\ args.T = 0) => ret.outcome = "ZeroDivisionError"

\* T = 0 with a positive fetch and wind, where F / T would be inf
C7_Witness ==
    /\ pc = "returned"
    /\ args.T = 0 /\ args.F > 0
    /\ Len(args.ws) > 0 /\ ~AllZero(args.ws)
    /\ ret.outcome = "ZeroDivisionError"

(***************************************************************************)
(* Calls of sector_index on bounded directions                             *)
(***************************************************************************)
\* every quarter degree of MaxTurns turns below 0 and MaxTurns + 1 from 0 up
DirInputs ==
    {q * (DirDen \div 4) :
        q \in (-(MaxTurns * 1440))..((MaxTurns + 1) * 1440 - 1)}

InitSector ==
    /\ pc = "call"
    /\ args \in {[direction |-> d] : d \in DirInputs}
    /\ ret = None
    /\ PageIdle

CallSectorIndex ==
    /\ pc = "call"
    /\ ret' = sector_index(args.direction)
    /\ pc' = "returned"
    /\ UNCHANGED <<args, pageVars>>

NextSector == CallSectorIndex

SpecSector == InitSector /\ [][NextSector]_vars

Neighbours(x) == {y \in {x - Ulp(x), x + Ulp(x)} : RoundFloat(y) = y}

InitNormalize ==
    /\ pc = "call"
    /\ \E d \in DirInputs :
           \E y \in Neighbours(d) \cup {d} :
               /\ y < 0 \/ y >= FULL_CIRCLE
               /\ args = [direction |-> y]
    /\ ret = None
    /\ PageIdle

\* one hour of wind speed 1 from the direction, binned as line 87 bins it
CallSectorTransport ==
    /\ pc = "call"
    /\ ret' = [idx |-> sector_index(args.direction),
               wrapped |-> sector_index(float_rem(args.direction,
                                                  FULL_CIRCLE)),
               sectors |-> compute_sector_transport(<<1>>,
                                                    <<args.direction>>, DT)]
    /\ pc' = "returned"
    /\ UNCHANGED <<args, pageVars>>

NextNormalize == CallSectorTransport

SpecNormalize == InitNormalize /\ [][NextNormalize]_vars

\* C11: a direction outside [0,360), negative or 360 and above, is
\* normalized by modulo before binning: sector_index(d) is in 0..15 and
\* equals sector_index(d mod 360), and compute_sector_transport does not
\* index outside its 16 bins.
C11_NormalizedBeforeBinning ==
    pc = "returned" =>
        /\ ret.idx \in 0..15
        /\ ret.idx = ret.wrapped
        /\ ret.sectors # Raise("IndexError")

(***************************************************************************)
(* Calls of compute_Qupot on two bounded hour sequences and on their       *)
(* concatenation                                                           *)
(***************************************************************************)
InitQupot ==
    /\ pc = "call"
    /\ args \in {[ws1 |-> a, ws2 |-> b] : a \in WindSeqs, b \in WindSeqs}
    /\ ret = None
    /\ PageIdle

CallQupot ==
    /\ pc = "call"
    /\ ret' = [a |-> compute_Qupot(args.ws1, DT),
               b |-> compute_Qupot(args.ws2, DT),
               ab |-> compute_Qupot(args.ws1 \o args.ws2, DT)]
    /\ pc' = "returned"
    /\ UNCHANGED <<args, pageVars>>

NextQupot == CallQupot

SpecQupot == InitQupot /\ [][NextQupot]_vars

\* the sum of f over the index set I
RECURSIVE SumOver(_, _)
SumOver(I, f) ==
    IF I = {} THEN 0
    ELSE LET i == CHOOSE j \in I : TRUE
         IN  f[i] + SumOver(I \ {i}, f)

\* C9: compute_Qupot returns the sum over all hours of the per-hour term
\* u^3.8*dt/233847 with dt = 3600: an hour with speed exactly 0 contributes 0,
\* the result is >= 0 for non-negative speeds, and Qupot of a concatenation of
\* two hour sequences is the sum of their Qupot values.
\* (ret.a counts 1/QDen, so ret.a / QDen = sum(u^3.8 * 3600) / 233847 reads
\* ret.a * (Pow38Den * 233847 / QDen) = sum(Pow38(u) * 3600).)
C9_QupotIsSumOfTerms ==
    pc = "returned" =>
        /\ ret.a * ((Pow38Den * 233847) \div QDen)
               = SumOver(DOMAIN args.ws1,
                         [i \in DOMAIN args.ws1 |-> Pow38(args.ws1[i]) * 3600])
        /\ ret.a >= 0
        /\ ret.ab = ret.a + ret.b
        /\ AllZero(args.ws2) => ret.ab = ret.a
        /\ AllZero(args.ws1) => ret.a = 0

\* two non-empty sequences, windy and calm hours in each
C9_Witness ==
    /\ pc = "returned"
    /\ \E i, j \in DOMAIN args.ws1 : args.ws1[i] = 0 /\ args.ws1[j] > 1
    /\ \E i, j \in DOMAIN args.ws2 : args.ws2[i] = 0 /\ args.ws2[j] > 1
    /\ ret.b > 0
    /\ ret.ab > ret.a

(***************************************************************************)
(* The page script of pages/8_snow_drift.py                                *)
(***************************************************************************)
\* a bound of the checked runs: hours over all downloaded frames
MaxHours == 3

\* page parameters (lines 149-151); theta = 0.5
T_PAGE == 3000
F_PAGE == 30000
THETA_PAGE == ThetaDen \div 2

\* slider: min_value (line 45); the checked runs use its first two years
YEAR_MIN == 2021
SliderYears == YEAR_MIN..(YEAR_MIN + 1)

\* pd.Timestamp: year, month, and the seconds elapsed since the month began
Timestamp(y, m, d, hh, mm, ss) ==
    [year |-> y, month |-> m, sec |-> (d - 1) * 86400 + hh * 3600 + mm * 60 + ss]

\* a <= b on timestamps
TimeLE(a, b) ==
    \/ a.year < b.year
    \/ a.year = b.year /\ a.month < b.month
    \/ a.year = b.year /\ a.month = b.month /\ a.sec <= b.sec

\* the hours of year y that the checked frames are drawn from, in time order:
\* the first and last hour of the year and the two hours around the season
\* boundary
HourSlots(y) ==
    << Timestamp(y, 1, 1, 0, 0, 0), Timestamp(y, 6, 30, 23, 0, 0),
       Timestamp(y, 7, 1, 0, 0, 0), Timestamp(y, 12, 31, 23, 0, 0) >>

\* the weather of an hour: calm snowfall; wind from 11.25 degrees at exactly
\* 1.0 C with precipitation; wind from 348.75 degrees at 0.9 C with
\* precipitation; dry warm wind from the east
Weather ==
    { [wind_speed_10m |-> 0, wind_direction_10m |-> 0,
       temperature_2m |-> -5 * TempDen, precipitation |-> SweDen],
      [wind_speed_10m |-> 3, wind_direction_10m |-> (45 * DirDen) \div 4,
       temperature_2m |-> TempDen, precipitation |-> 2 * SweDen],
      [wind_speed_10m |-> 2, wind_direction_10m |-> (1395 * DirDen) \div 4,
       temperature_2m |-> TempDen - 1, precipitation |-> SweDen],
      [wind_speed_10m |-> 3, wind_direction_10m |-> 90 * DirDen,
       temperature_2m |-> 5 * TempDen, precipitation |-> 0] }

\* the k-th smallest element of a set of integers
Nth(S, k) == CHOOSE i \in S : Cardinality({j \in S : j < i}) = k - 1

\* download_weather_data: a frame with the time column and the hourly
\* variables, here the hours picked by S with the weather w
Frame(y, S, w) ==
    [k \in 1..Cardinality(S) |->
        LET i == Nth(S, k)
        IN  [time |-> HourSlots(y)[i],
             temperature_2m |-> w[i].temperature_2m,
             precipitation |-> w[i].precipitation,
             wind_speed_10m |-> w[i].wind_speed_10m,
             wind_direction_10m |-> w[i].wind_direction_10m]]

\* the frames a download of year y may return with at most n hours
Frames(y, n) ==
    UNION {{Frame(y, S, w) : w \in [S -> Weather]} :
              S \in {X \in SUBSET DOMAIN HourSlots(y) : Cardinality(X) <= n}}

SeasonLabelByYear(dt) == dt.year

\* line 135: lambda dt: dt.year if dt.month >= 7 else dt.year - 1
SeasonLabel(dt) == IF dt.month >= 7 THEN dt.year ELSE dt.year - 1

\* df_year['season'] = df_year['time'].apply(...)
WithSeason(df) ==
    [k \in DOMAIN df |->
        [time |-> df[k].time, season |-> SeasonLabel(df[k].time),
         temperature_2m |-> df[k].temperature_2m,
         precipitation |-> df[k].precipitation,
         wind_speed_10m |-> df[k].wind_speed_10m,
         wind_direction_10m |-> df[k].wind_direction_10m]]

\* pd.concat(dfs, ignore_index=True)
RECURSIVE Concat(_)
Concat(frames) ==
    IF frames = <<>> THEN <<>> ELSE Head(frames) \o Concat(Tail(frames))

\* df[mask]: the rows that satisfy Test, in order
Rows(df, Test(_)) == SelectSeq(df, Test)

\* sorted(...) of a set of integers
RECURSIVE Sorted(_)
Sorted(S) ==
    IF S = {} THEN <<>>
    ELSE LET m == CHOOSE x \in S : \A y \in S : x <= y
         IN  <<m>> \o Sorted(S \ {m})

Column(df, name) == [k \in DOMAIN df |-> df[k][name]]

Unique(col) == {col[k] : k \in DOMAIN col}

Swe_hourly_le(df) ==
    [k \in DOMAIN df |->
        IF df[k].temperature_2m <= 1 * TempDen THEN df[k].precipitation ELSE 0]

\* lines 115-117: row['precipitation'] if row['temperature_2m'] < 1 else 0
\* (nan < 1 is False)
Swe_hourly(df) ==
    [k \in DOMAIN df |->
        IF df[k].temperature_2m # NaN /\ df[k].temperature_2m < 1 * TempDen
        THEN df[k].precipitation ELSE 0]

\* Series.sum() with its default skipna=True: the nan entries are left out
pandas_sum(col) == SumSeq(SelectSeq(col, LAMBDA x : x # NaN))

\* line 118: df_season['Swe_hourly'].sum()
total_Swe(df) == pandas_sum(Swe_hourly(df))

\* a result dict with more keys set on it (the page calls with T = 3000, so
\* compute_snow_transport always returns here)
Row(result, more) == more @@ result

\* a window that closes at June 30 00:00:00
SeasonFilterMidnight(df, s) ==
    LET season_start == Timestamp(s, 7, 1, 0, 0, 0)
        season_end == Timestamp(s + 1, 6, 30, 0, 0, 0)
        InSeason(row) == TimeLE(season_start, row.time) /\ TimeLE(row.time, season_end)
    IN  Rows(df, InSeason)

\* a window without its upper end: every hour from July 1 on
SeasonFilterFrom(df, s) ==
    LET season_start == Timestamp(s, 7, 1, 0, 0, 0)
        InSeason(row) == TimeLE(season_start, row.time)
    IN  Rows(df, InSeason)

\* lines 109-111: df[(df['time'] >= season_start) & (df['time'] <= season_end)]
SeasonFilter(df, s) ==
    LET season_start == Timestamp(s, 7, 1, 0, 0, 0)
        season_end == Timestamp(s + 1, 6, 30, 23, 59, 59)
        InSeason(row) == TimeLE(season_start, row.time) /\ TimeLE(row.time, season_end)
    IN  Rows(df, InSeason)

\* lines 108-122, the loop body for the seasons left
RECURSIVE YearlyLoop(_, _, _, _, _, _)
YearlyLoop(seasons, df, T, F, theta, results_list) ==
    IF seasons = <<>> THEN results_list
    ELSE LET s == Head(seasons)
             df_season == SeasonFilter(df, s)
             wind_speeds == Column(df_season, "wind_speed_10m")
             result == compute_snow_transport(T, F, theta, total_Swe(df_season),
                                              wind_speeds, DT)
         IN  IF df_season = <<>>
             THEN YearlyLoop(Tail(seasons), df, T, F, theta, results_list)
             ELSE YearlyLoop(Tail(seasons), df, T, F, theta,
                             Append(results_list, Row(result, [season |-> <<s, s + 1>>])))

\* seasons taken from the calendar years of the stream
compute_yearly_results_by_year(df, T, F, theta) ==
    YearlyLoop(Sorted({df[k].time.year : k \in DOMAIN df}), df, T, F, theta, <<>>)

compute_yearly_results(df, T, F, theta) ==
    YearlyLoop(Sorted(Unique(Column(df, "season"))), df, T, F, theta, <<>>)

\* a grouping by the month number alone
MonthGroupAnySeason(df, season, month) ==
    LET InGroup(row) == row.time.month = month
    IN  Rows(df, InGroup)

\* lines 169-170: the month_group of groupby('season') then groupby('month')
MonthGroup(df, season, month) ==
    LET InGroup(row) == row.season = season /\ row.time.month = month
    IN  Rows(df, InGroup)

\* lines 169-180: for season, group in groupby('season'):
\*                    for month, month_group in group.groupby('month')
RECURSIVE MonthlyLoop(_, _, _)
MonthlyLoop(keys, df, results_list) ==
    IF keys = <<>> THEN results_list
    ELSE LET season == Head(keys)[1]
             month == Head(keys)[2]
             month_group == MonthGroup(df, season, month)
             wind_speeds == Column(month_group, "wind_speed_10m")
             result == compute_snow_transport(T_PAGE, F_PAGE, THETA_PAGE,
                                              total_Swe(month_group), wind_speeds, DT)
         IN  MonthlyLoop(Tail(keys), df,
                         Append(results_list,
                                Row(result, [season |-> season, month |-> month])))

\* the (season, month) groups in the order groupby yields them
MonthKeys(df) ==
    LET seasons == Sorted(Unique(Column(df, "season")))
        MonthsOf(s) == Sorted({df[k].time.month : k \in {j \in DOMAIN df : df[j].season = s}})
        RECURSIVE Keys(_)
        Keys(ss) ==
            IF ss = <<>> THEN <<>>
            ELSE [n \in DOMAIN MonthsOf(Head(ss)) |-> <<Head(ss), MonthsOf(Head(ss))[n]>>]
                     \o Keys(Tail(ss))
    IN  Keys(seasons)

(***************************************************************************)
(* The monthly loop of pages/3_Advanced_Tools/1_Snow_drift.py              *)
(***************************************************************************)
\* line 143: df_all['time'].dt.to_period('M')
to_period_M(dt) == <<dt.year, dt.month>>

\* line 145: the group of groupby('year_month')
PeriodGroup(df, ym) ==
    LET InGroup(row) == to_period_M(row.time) = ym
    IN  Rows(df, InGroup)

\* lines 145-154
RECURSIVE PeriodLoop(_, _, _)
PeriodLoop(keys, df, results_list) ==
    IF keys = <<>> THEN results_list
    ELSE LET ym == Head(keys)
             group == PeriodGroup(df, ym)
             wind_speeds == Column(group, "wind_speed_10m")
             result == compute_snow_transport(T_PAGE, F_PAGE, THETA_PAGE,
                                              total_Swe(group), wind_speeds, DT)
         IN  PeriodLoop(Tail(keys), df,
                        Append(results_list, Row(result, [year_month |-> ym])))

\* the year_month groups in the order groupby yields them
PeriodKeys(df) ==
    LET years == Sorted({df[k].time.year : k \in DOMAIN df})
        MonthsOf(y) == Sorted({df[k].time.month : k \in {j \in DOMAIN df : df[j].time.year = y}})
        RECURSIVE Keys(_)
        Keys(ys) ==
            IF ys = <<>> THEN <<>>
            ELSE [n \in DOMAIN MonthsOf(Head(ys)) |-> <<Head(ys), MonthsOf(Head(ys))[n]>>]
                     \o Keys(Tail(ys))
    IN  Keys(years)

\* lines 227-234: one sector table per season group
RECURSIVE RoseLoop(_, _, _)
RoseLoop(seasons, df, sectors_acc) ==
    IF seasons = <<>> THEN sectors_acc
    ELSE LET s == Head(seasons)
             InGroup(row) == row.season = s
             group == Rows(df, InGroup)
             ws == Column(group, "wind_speed_10m")
             wdir == Column(group, "wind_direction_10m")
             sectors == compute_sector_transport(ws, wdir, DT)
         IN  IF Raised(sectors) THEN sectors    \* the exception leaves the loop
             ELSE RoseLoop(Tail(seasons), df, Append(sectors_acc, sectors))

\* a quotient, kept as the exact fraction num/den
Fraction(num, den) == [num |-> num, den |-> den]

\* the sum divided by the number of values that are not 0
mean_nonzero(values) ==
    Fraction(SumSeq(values),
             Cardinality({k \in DOMAIN values : values[k] # 0}))

\* lines 236-237: np.mean / Series.mean of a list of numbers
mean(values) == Fraction(SumSeq(values), Len(values))

\* line 236: np.mean(sectors_list, axis=0), bin by bin
np_mean_axis0(tables) ==
    [i \in 0..(NSECTORS - 1) |-> mean([k \in DOMAIN tables |-> tables[k][i]])]

\* the hours a stream may hold in the run that follows a rerun
MaxRerunHours == 2

\* the hours a download may still add to the stream
HoursLeft == (IF first_run = <<>> THEN MaxHours ELSE MaxRerunHours)

\* the hours held by the frames of the cache
HoursCached(c) == SumOver(DOMAIN c, [y \in DOMAIN c |-> Len(c[y])])

(***************************************************************************)
(* The session: st.session_state, the map pages pages/7_map.py and         *)
(* pages/2_Energy_Analysis/3_Map.py, and the guard of the snow-drift pages *)
(***************************************************************************)
\* Python's None in a session value, and a value that is not None
NoneValue == <<>>
Some(v) == <<v>>

\* st.session_state[k] = v
Put(s, k, v) == (k :> v) @@ s

\* coordinates count tenths of a degree; a pin is [lat, lon]
DEFAULT_PIN == <<645, 110>>

\* where the user may click ([lat, lng]): Oslo, Bergen, a point on the border
\* of two areas, the open sea, and the place of the default pin
ClickCoords == {<<599, 108>>, <<604, 53>>, <<610, 80>>, <<700, 0>>, DEFAULT_PIN}

\* the polygons the price-zone file may give, as (fid, geom) pairs in file
\* order; geom.covers is the set of the points (lon, lat) it holds.  The ids
\* are those of the file, or the feature's position where it has no OBJECTID
\* (3_Map.py line 35), or there is no polygon at all where no feature has an
\* id (7_map.py lines 60-62).
PolygonInputs ==
    { << [fid |-> 8, covers |-> {<<108, 599>>, <<80, 610>>}],
         [fid |-> 7, covers |-> {<<53, 604>>, <<80, 610>>}],
         [fid |-> 9, covers |-> {<<110, 645>>}] >>,
      << [fid |-> 0, covers |-> {<<108, 599>>, <<80, 610>>}],
         [fid |-> 1, covers |-> {<<53, 604>>, <<80, 610>>}] >>,
      << >> }

\* the loop of find_feature_id over the polygons left
RECURSIVE FirstCovering(_, _)
FirstCovering(polygons, pt) ==
    IF polygons = <<>> THEN NoneValue
    ELSE IF pt \in Head(polygons).covers THEN Some(Head(polygons).fid)
    ELSE FirstCovering(Tail(polygons), pt)

\* find_feature_id(lon, lat) in the session s: Point(lon, lat), and the first
\* polygon of st.session_state.polygons that covers it
find_feature_id(s, lon, lat) == FirstCovering(s.polygons, <<lon, lat>>)

\* 7_map.py lines 57-68, 3_Map.py lines 55-59: the polygons are built once
WithPolygons(s, polys) ==
    IF "polygons" \in DOMAIN s THEN s ELSE Put(s, "polygons", polys)

\* 7_map.py lines 150-159, 3_Map.py lines 105-111
WithPin(s) ==
    LET s1 == IF "last_pin" \in DOMAIN s THEN s
              ELSE Put(s, "last_pin", DEFAULT_PIN)
        s2 == IF "selected_feature_id" \in DOMAIN s1 THEN s1
              ELSE Put(s1, "selected_feature_id", NoneValue)
    IN  IF s2.selected_feature_id = NoneValue
        THEN Put(s2, "selected_feature_id",
                 find_feature_id(s2, s2.last_pin[2], s2.last_pin[1]))
        ELSE s2

\* a click that moves the pin and leaves the selection as it was
ProcessClickPinOnly(s, last_clicked) == Put(s, "last_pin", last_clicked)

\* 7_map.py lines 215-220, 3_Map.py lines 151-154
ProcessClick(s, last_clicked) ==
    LET lat == last_clicked[1]
        lon == last_clicked[2]
    IN  Put(Put(s, "last_pin", <<lat, lon>>),
            "selected_feature_id", find_feature_id(s, lon, lat))

\* st_folium(m, key=key): the component is rendered and returns the value the
\* browser sent last, None before any click
Rendered(key) == IF key \in DOMAIN out THEN out ELSE Put(out, key, NoneValue)

\* a bound of the checked sessions: the reruns followed after one click
MaxReruns == 3

MapPages == {"7_map", "3_Map"}
SnowPages == {"8_snow_drift", "1_Snow_drift"}
MapKey(p) == IF p = "7_map" THEN "choropleth_map" ELSE "map"

\* one run of pages/7_map.py: it ends with st.rerun() (pc stays "run") when
\* the click is not where the pin is, and runs to its last line otherwise
MapRun7 ==
    /\ pc = "run" /\ page = "7_map"
    /\ \E polys \in PolygonInputs :
          LET s == WithPin(WithPolygons(session_state, polys))
              last_clicked == Rendered("choropleth_map")["choropleth_map"]
          IN  IF last_clicked # NoneValue /\ last_clicked # s.last_pin
              THEN /\ reruns < MaxReruns
                   /\ session_state' = ProcessClick(s, last_clicked)
                   /\ pc' = "run"
                   /\ reruns' = reruns + 1
              ELSE /\ session_state' = s
                   /\ pc' = "idle"
                   /\ UNCHANGED reruns
    /\ out' = Rendered("choropleth_map")
    /\ UNCHANGED <<page, args, ret>>

\* one run of pages/2_Energy_Analysis/3_Map.py: st.rerun() whenever the
\* component holds a click
MapRun3 ==
    /\ pc = "run" /\ page = "3_Map"
    /\ \E polys \in PolygonInputs :
          LET s == WithPin(WithPolygons(session_state, polys))
              last_clicked == Rendered("map")["map"]
          IN  IF last_clicked # NoneValue
              THEN /\ reruns < MaxReruns
                   /\ session_state' = ProcessClick(s, last_clicked)
                   /\ pc' = "run"
                   /\ reruns' = reruns + 1
              ELSE /\ session_state' = s
                   /\ pc' = "idle"
                   /\ UNCHANGED reruns
    /\ out' = Rendered("map")
    /\ UNCHANGED <<page, args, ret>>

\* the user clicks on the map of a page that has run to its end: the
\* component's value changes and the script runs again
Click ==
    /\ pc = "idle" /\ page \in MapPages
    /\ \E c \in ClickCoords : out' = Put(out, MapKey(page), c)
    /\ pc' = "run"
    /\ reruns' = 0
    /\ UNCHANGED <<session_state, page, args, ret>>

\* the user opens another page: its script runs, and the widgets of the page
\* left, which this run does not render, lose their value
Navigate ==
    /\ \E p \in (MapPages \cup SnowPages) \ {page} : page' = p
    /\ pc' = "run"
    /\ out' = <<>>
    /\ reruns' = 0
    /\ UNCHANGED <<session_state, args, ret>>

\* a guard that lets a selection of None through
GuardStopsIfAbsent(s) == "selected_feature_id" \notin DOMAIN s

\* 8_snow_drift.py line 32, 1_Snow_drift.py line 24
GuardStops(s) ==
    "selected_feature_id" \notin DOMAIN s \/ s.selected_feature_id = NoneValue

\* 1_Snow_drift.py lines 32-38: the keys of price_areas
PRICE_AREA_IDS == {8, 6, 9, 10, 7}

\* fid in price_areas (None is not a key)
KnownArea(fid) == fid # NoneValue /\ fid[1] \in PRICE_AREA_IDS

\* lat, lon = st.session_state.last_pin (8_snow_drift.py line 36), then on to
\* the download loop, which calls download_weather_data(lat, lon, year)
ReadPin ==
    IF "last_pin" \notin DOMAIN session_state
    THEN pc' = "AttributeError" /\ UNCHANGED args
    ELSE /\ pc' = "download"
         /\ args' = [latitude |-> session_state.last_pin[1],
                     longitude |-> session_state.last_pin[2]]

\* pages/8_snow_drift.py lines 32-37
SnowDriftRun8 ==
    /\ pc = "run" /\ page = "8_snow_drift"
    /\ IF GuardStops(session_state)
       THEN pc' = "stopped" /\ UNCHANGED args
       ELSE ReadPin
    /\ UNCHANGED <<session_state, out, page, reruns, ret>>

\* pages/3_Advanced_Tools/1_Snow_drift.py lines 24-46
SnowDriftRun1 ==
    /\ pc = "run" /\ page = "1_Snow_drift"
    /\ IF GuardStops(session_state)
       THEN pc' = "stopped" /\ UNCHANGED args
       ELSE IF ~KnownArea(session_state.selected_feature_id)
       THEN pc' = "stopped" /\ UNCHANGED args
       ELSE ReadPin
    /\ UNCHANGED <<session_state, out, page, reruns, ret>>

\* a new session: nothing is set, the user opens one of the pages
InitSession ==
    /\ pc = "run"
    /\ page \in MapPages \cup SnowPages
    /\ session_state = <<>> /\ out = <<>> /\ reruns = 0
    /\ args = None /\ ret = None
    /\ start_year = None /\ end_year = None /\ year = None
    /\ dfs = <<>> /\ df_all = <<>> /\ yearly_df = <<>> /\ monthly_df = <<>>
    /\ sectors_list = <<>>
    /\ avg_sectors = <<>> /\ overall_avg = <<>>
    /\ cache = <<>> /\ first_run = <<>>
    /\ errors = <<>> /\ http_log = <<>>

scriptVars == <<start_year, end_year, year, dfs, df_all, yearly_df, monthly_df,
                sectors_list, avg_sectors, overall_avg, cache, first_run,
                errors, http_log>>

NextSession ==
    \/ MapRun7 /\ UNCHANGED scriptVars
    \/ MapRun3 /\ UNCHANGED scriptVars
    \/ Click /\ UNCHANGED scriptVars
    \/ Navigate /\ UNCHANGED scriptVars
    \/ SnowDriftRun8 /\ UNCHANGED scriptVars
    \/ SnowDriftRun1 /\ UNCHANGED scriptVars

SpecSession == InitSession /\ [][NextSession]_vars

\* the session of a run of 8_snow_drift.py that passed the guard: the map
\* page has put the pin on Oslo and selected its area
SessionAfterMap ==
    Put(Put(Put(<<>>, "polygons", CHOOSE polys \in PolygonInputs : Len(polys) = 3),
            "last_pin", <<599, 108>>), "selected_feature_id", Some(8))

\* the script variables before any line has assigned them
Unassigned ==
    /\ dfs = <<>> /\ df_all = <<>> /\ yearly_df = <<>> /\ monthly_df = <<>>
    /\ sectors_list = <<>>
    /\ avg_sectors = <<>> /\ overall_avg = <<>>

Init ==
    /\ pc = "download"
    /\ start_year \in SliderYears
    /\ end_year \in {y \in SliderYears : y >= start_year}
    /\ year = start_year
    /\ Unassigned
    /\ cache = <<>> /\ first_run = <<>>
    /\ args = None /\ ret = None
    /\ errors = <<>>
    /\ session_state = SessionAfterMap /\ out = <<>>
    /\ page = "8_snow_drift"
    /\ reruns = 0
    /\ http_log = <<>>

\* lines 130-136: one pass of the loop body whose download succeeds; the
\* frame goes into the cache of download_weather_data (line 55)
DownloadYear ==
    /\ pc = "download"
    /\ year <= end_year
    /\ year \notin DOMAIN cache
    /\ \E df_year \in Frames(year, HoursLeft - HoursCached(cache)) :
           /\ dfs' = Append(dfs, WithSeason(df_year))
           /\ cache' = (year :> df_year) @@ cache
    /\ year' = year + 1
    /\ UNCHANGED <<pc, start_year, end_year, df_all, yearly_df, monthly_df,
                   sectors_list, avg_sectors, overall_avg, first_run, args, ret, errors, sessionVars>>

\* lines 130-136 on a cache hit: a copy of the cached frame is returned
DownloadCached ==
    /\ pc = "download"
    /\ year <= end_year
    /\ year \in DOMAIN cache
    /\ dfs' = Append(dfs, WithSeason(cache[year]))
    /\ year' = year + 1
    /\ UNCHANGED <<pc, start_year, end_year, df_all, yearly_df, monthly_df,
                   sectors_list, avg_sectors, overall_avg, cache, first_run,
                   args, ret, errors, sessionVars>>

\* a failure that ends the loop and the run
DownloadFailsAborts ==
    /\ pc = "download"
    /\ year <= end_year
    /\ year \notin DOMAIN cache
    /\ errors' = Append(errors, year)
    /\ pc' = "stopped"
    /\ UNCHANGED <<start_year, end_year, year, dfs, df_all, yearly_df,
                   monthly_df, sectors_list, avg_sectors, overall_avg, cache,
                   first_run, args, ret, sessionVars>>

\* lines 137-138: the download raised; st.error and on to the next year
DownloadFails ==
    /\ pc = "download"
    /\ year <= end_year
    /\ year \notin DOMAIN cache
    /\ errors' = Append(errors, year)
    /\ year' = year + 1
    /\ UNCHANGED <<pc, start_year, end_year, dfs, df_all, yearly_df, monthly_df,
                   sectors_list, avg_sectors, overall_avg, cache, first_run,
                   args, ret, sessionVars>>

\* lines 140-144: st.stop() without frames, else the concatenation
Concatenate ==
    /\ pc = "download"
    /\ year > end_year
    /\ IF dfs = <<>>
       THEN pc' = "stopped" /\ UNCHANGED df_all
       ELSE pc' = "yearly" /\ df_all' = Concat(dfs)
    /\ UNCHANGED <<start_year, end_year, year, dfs, yearly_df, monthly_df,
                   sectors_list, avg_sectors, overall_avg, cache, first_run,
                   args, ret, errors, sessionVars>>

\* lines 156-161: st.stop() when the yearly table has no rows
Yearly ==
    /\ pc = "yearly"
    /\ yearly_df' = compute_yearly_results(df_all, T_PAGE, F_PAGE, THETA_PAGE)
    /\ pc' = IF yearly_df' = <<>> THEN "no_results" ELSE "monthly"
    /\ UNCHANGED <<start_year, end_year, year, dfs, df_all, monthly_df,
                   sectors_list, avg_sectors, overall_avg, cache, first_run,
                   args, ret, errors, sessionVars>>

\* lines 166-183
Monthly ==
    /\ pc = "monthly"
    /\ monthly_df' = MonthlyLoop(MonthKeys(df_all), df_all, <<>>)
    /\ pc' = "rose"
    /\ UNCHANGED <<start_year, end_year, year, dfs, df_all, yearly_df,
                   sectors_list, avg_sectors, overall_avg, cache, first_run,
                   args, ret, errors, sessionVars>>

\* lines 227-237
WindRose ==
    /\ pc = "rose"
    /\ sectors_list' = RoseLoop(Sorted(Unique(Column(df_all, "season"))), df_all, <<>>)
    /\ avg_sectors' = np_mean_axis0(sectors_list')
    /\ overall_avg' = mean(Column(yearly_df, "Qt"))
    /\ pc' = "done"
    /\ UNCHANGED <<start_year, end_year, year, dfs, df_all, yearly_df,
                   monthly_df, cache, first_run, args, ret, errors, sessionVars>>

\* what a run of the script ended with
Outcome ==
    [pc |-> pc, stream |-> cache, df_all |-> df_all, yearly_df |-> yearly_df,
     monthly_df |-> monthly_df, sectors_list |-> sectors_list,
     avg_sectors |-> avg_sectors, overall_avg |-> overall_avg]

\* a rerun that finds the list dfs of the run before
RerunKeepingDfs ==
    /\ pc = "done"
    /\ first_run = <<>>
    /\ HoursCached(cache) <= MaxRerunHours
    /\ first_run' = <<Outcome>>
    /\ pc' = "download"
    /\ errors' = <<>>
    /\ year' = start_year
    /\ df_all' = <<>> /\ yearly_df' = <<>> /\ monthly_df' = <<>>
    /\ sectors_list' = <<>>
    /\ avg_sectors' = <<>> /\ overall_avg' = <<>>
    /\ UNCHANGED <<start_year, end_year, dfs, cache, args, ret, sessionVars>>

\* Streamlit runs the script again from its first line with the same slider
\* value: every script variable is assigned afresh (dfs = [] at line 128),
\* only the cache of download_weather_data outlives the run.  The rerun
\* followed here is the first one after a run that drew its wind rose.
Rerun ==
    /\ pc = "done"
    /\ first_run = <<>>
    /\ HoursCached(cache) <= MaxRerunHours
    /\ first_run' = <<Outcome>>
    /\ pc' = "download"
    /\ errors' = <<>>
    /\ year' = start_year
    /\ dfs' = <<>> /\ df_all' = <<>> /\ yearly_df' = <<>> /\ monthly_df' = <<>>
    /\ sectors_list' = <<>>
    /\ avg_sectors' = <<>> /\ overall_avg' = <<>>
    /\ UNCHANGED <<start_year, end_year, cache, args, ret, sessionVars>>

Next ==
    \/ DownloadYear
    \/ DownloadCached
    \/ DownloadFails
    \/ Concatenate
    \/ Yearly
    \/ Monthly
    \/ WindRose
    \/ Rerun

Spec == Init /\ [][Next]_vars

(***************************************************************************)
(* Properties of the page script (under Spec)                              *)
(***************************************************************************)
\* the rows of a result list
RowsOf(df) == {df[k] : k \in DOMAIN df}

\* the season labels of the downloaded stream
SeasonsPresent == {df_all[k].season : k \in DOMAIN df_all}

\* C1: for every season of the input stream, the 16 bins of the sector table
\* built by compute_sector_transport from that season's hours (the wind rose
\* loop, one table per season group in season order) sum to the Qupot that
\* compute_snow_transport reports for the same season in the yearly results.
C1_SectorsSumToQupot ==
    pc = "done" =>
        /\ Len(sectors_list) = Cardinality(SeasonsPresent)
        /\ \A k \in DOMAIN sectors_list :
               /\ DOMAIN sectors_list[k] = 0..15
               /\ \E r \in RowsOf(yearly_df) :
                      /\ r.season = <<Nth(SeasonsPresent, k), Nth(SeasonsPresent, k) + 1>>
                      /\ SumOver(0..15, sectors_list[k]) = r.Qupot

\* two seasons were processed; in one of them two windy hours fell into bin 1,
\* in the other a windy hour fell into bin 0
C1_Witness ==
    /\ pc = "done"
    /\ Len(sectors_list) = 2
    /\ \E j, k \in DOMAIN sectors_list :
           /\ j # k
           /\ sectors_list[k][1] = 2 * HourTerm(3, DT)
           /\ sectors_list[j][0] = HourTerm(2, DT)

\* the snow contribution of hour k of the stream: precipitation below 1.0 C
Contribution(k) ==
    IF df_all[k].temperature_2m < TempDen THEN df_all[k].precipitation ELSE 0

\* the snow supply of the hours I of the stream
Supply(I) == SumOver(I, [k \in I |-> Contribution(k)])

\* C8: the snow supply of a period (season of the yearly results, month group
\* of the monthly results) is the sum over its hours of precipitation where
\* temperature < 1.0 (strict: an hour at exactly 1.0 contributes 0) and 0
\* otherwise; an hour once counted stays counted whatever hours follow, and a
\* period with no hours has Swe = 0.  (Swe is read off the rows as
\* Srwe = theta * Swe and Qspot = 0.5 * T * Swe.)
C8_SnowSupply ==
    /\ pc \in {"monthly", "rose", "done"} =>
           \A r \in RowsOf(yearly_df) :
               LET I == {k \in DOMAIN df_all : df_all[k].season = r.season[1]}
               IN  /\ r.Srwe = THETA_PAGE * Supply(I)
                   /\ r.Qspot * 2 = (T_PAGE * Supply(I)) * (QDen \div SweDen)
    /\ pc \in {"rose", "done"} =>
           \A r \in RowsOf(monthly_df) :
               LET I == {k \in DOMAIN df_all : /\ df_all[k].season = r.season
                                               /\ df_all[k].time.month = r.month}
               IN  r.Srwe = THETA_PAGE * Supply(I)
    /\ pc # "download" =>
           \A n \in DOMAIN df_all :
               total_Swe(SubSeq(df_all, 1, n))
                   = total_Swe(SubSeq(df_all, 1, n - 1)) + Contribution(n)
    /\ total_Swe(<<>>) = 0

\* a season with snowfall below 1.0 C and precipitation at exactly 1.0 C
C8_Witness ==
    /\ pc = "done"
    /\ \E r \in RowsOf(yearly_df) :
           \E j, k \in DOMAIN df_all :
               /\ df_all[j].season = r.season[1] /\ df_all[k].season = r.season[1]
               /\ df_all[j].temperature_2m = TempDen /\ df_all[j].precipitation > 0
               /\ df_all[k].temperature_2m < TempDen /\ df_all[k].precipitation > 0
               /\ r.Srwe = THETA_PAGE * df_all[k].precipitation

(***************************************************************************)
(* The season label against the season window                              *)
(***************************************************************************)
\* the labels an hour of the slider's years could carry, and one beyond
SeasonRange == (YEAR_MIN - 2)..(YEAR_MIN + 3)

\* the rows of df labelled s
Labelled(df, s) ==
    LET LabelIs(row) == row.season = s
    IN  Rows(df, LabelIs)

\* C12: every hourly timestamp carries exactly one season label Y, the year
\* if the month is July or later and the year before otherwise, and the
\* hours labelled Y are exactly the hours that compute_yearly_results
\* selects with [July 1 Y 00:00, June 30 Y+1 23:59:59]: every hour is in
\* the window of its own label and in no other window.
C12_SeasonPartition ==
    pc = "monthly" =>
        /\ \A k \in DOMAIN df_all :
               LET dt == df_all[k].time
               IN  /\ df_all[k].season =
                          (IF dt.month >= 7 THEN dt.year ELSE dt.year - 1)
                   /\ Cardinality({s \in SeasonRange :
                          \E row \in RowsOf(SeasonFilter(df_all, s)) :
                              row.time = dt}) = 1
        /\ \A s \in SeasonRange :
               SeasonFilter(df_all, s) = Labelled(df_all, s)

\* the last hour of June and the first hour of July of one year went
\* through the yearly aggregation, as two seasons
C12_Witness ==
    /\ pc = "monthly"
    /\ \E j, k \in DOMAIN df_all :
           /\ df_all[j].time = Timestamp(YEAR_MIN + 1, 6, 30, 23, 0, 0)
           /\ df_all[k].time = Timestamp(YEAR_MIN + 1, 7, 1, 0, 0, 0)
           /\ df_all[j].season = YEAR_MIN
           /\ df_all[k].season = YEAR_MIN + 1
    /\ Len(yearly_df) = 2

(***************************************************************************)
(* The periods against the whole stream                                    *)
(***************************************************************************)
\* the sum of one key over the rows of a result list
Total(df, key) == SumSeq(Column(df, key))

\* C13: the periods partition the stream without overlap or gaps: Swe and
\* Qupot summed over all yearly season results equal Swe and Qupot of the
\* whole stream, and so do the sums over all monthly results.  (Swe is read
\* off the rows as Srwe = theta * Swe.)
C13_PeriodsPartition ==
    /\ pc = "done" =>
           /\ Total(yearly_df, "Srwe") = THETA_PAGE * total_Swe(df_all)
           /\ Total(yearly_df, "Qupot")
                  = compute_Qupot(Column(df_all, "wind_speed_10m"), DT)
    /\ pc = "done" =>
           /\ Total(monthly_df, "Srwe") = THETA_PAGE * total_Swe(df_all)
           /\ Total(monthly_df, "Qupot")
                  = compute_Qupot(Column(df_all, "wind_speed_10m"), DT)

\* two seasons and three month groups, each season with snow and with wind
C13_Witness ==
    /\ pc = "done"
    /\ Len(yearly_df) = 2
    /\ Len(monthly_df) = 3
    /\ \A k \in DOMAIN yearly_df :
           yearly_df[k].Srwe > 0 /\ yearly_df[k].Qupot > 0

(***************************************************************************)
(* One yearly result per season that has observations                      *)
(***************************************************************************)
\* the yearly aggregation has just run on a stream
YearlyRan == pc = "monthly"

\* the seasons whose window holds at least one hour of the stream
SeasonsObserved ==
    {s \in SeasonRange :
        \E k \in DOMAIN df_all :
            /\ TimeLE(Timestamp(s, 7, 1, 0, 0, 0), df_all[k].time)
            /\ TimeLE(df_all[k].time, Timestamp(s + 1, 6, 30, 23, 59, 59))}

\* C14: compute_yearly_results emits exactly one result per season that has
\* at least one observation, labelled 'Y-(Y+1)' (here the pair <<Y, Y+1>>),
\* in season order, and nothing for a season with zero observations.
C14_OneResultPerSeason ==
    YearlyRan =>
        /\ Len(yearly_df) = Cardinality(SeasonsObserved)
        /\ \A k \in DOMAIN yearly_df :
               LET Y == Nth(SeasonsObserved, k)
               IN  yearly_df[k].season = <<Y, Y + 1>>
        /\ \A s \in SeasonRange \ SeasonsObserved :
               \A k \in DOMAIN yearly_df : yearly_df[k].season[1] # s

\* hours before July of the first year and after June of the next year: two
\* results, and none for the season in between, which has no observation
C14_Witness ==
    /\ YearlyRan
    /\ SeasonsObserved = {YEAR_MIN - 1, YEAR_MIN + 1}
    /\ Len(yearly_df) = 2
    /\ yearly_df[1].season = <<YEAR_MIN - 1, YEAR_MIN>>
    /\ yearly_df[2].season = <<YEAR_MIN + 1, YEAR_MIN + 2>>

(***************************************************************************)
(* The monthly loops of the two pages on one stream                        *)
(***************************************************************************)
InitMonthly ==
    /\ pc = "call"
    /\ \E a \in Frames(YEAR_MIN, MaxHours) :
           \E b \in Frames(YEAR_MIN + 1, MaxHours - Len(a)) :
               /\ Len(a) + Len(b) > 0
               /\ args = [df_all |-> Concat(<<WithSeason(a), WithSeason(b)>>)]
    /\ ret = None
    /\ PageIdle

CallMonthly ==
    /\ pc = "call"
    /\ ret' = [by_season |->
                   MonthlyLoop(MonthKeys(args.df_all), args.df_all, <<>>),
               by_period |->
                   PeriodLoop(PeriodKeys(args.df_all), args.df_all, <<>>)]
    /\ pc' = "returned"
    /\ UNCHANGED <<args, pageVars>>

NextMonthly == CallMonthly

SpecMonthly == InitMonthly /\ [][NextMonthly]_vars

\* the values of a monthly result, without the keys of its group
Values(r) ==
    [Qupot |-> r.Qupot, Qspot |-> r.Qspot, Srwe |-> r.Srwe, Qinf |-> r.Qinf,
     Qt |-> r.Qt, Control |-> r.Control]

\* the calendar year of month m of season s
CalendarYear(s, m) == IF m >= 7 THEN s ELSE s + 1

\* C15: monthly partitioning: each hour is in exactly one month group, each
\* group holds hours of exactly one calendar year-month, a season yields at
\* most 12 month groups, December Y and January Y+1 belong to the same
\* season, and grouping by (season, month) as pages/8_snow_drift.py does and
\* by calendar year-month as pages/3_Advanced_Tools/1_Snow_drift.py does
\* yields the same groups (hence the same results per group).
C15_MonthGroups ==
    pc = "returned" =>
        LET df == args.df_all
            keys == {<<r.season, r.month>> : r \in RowsOf(ret.by_season)}
            periods == {r.year_month : r \in RowsOf(ret.by_period)}
        IN  /\ Len(ret.by_season) = Cardinality(keys)
            /\ \A k \in DOMAIN df :
                   Cardinality({key \in keys :
                       \E n \in DOMAIN MonthGroup(df, key[1], key[2]) :
                           MonthGroup(df, key[1], key[2])[n].time = df[k].time})
                       = 1
            /\ \A key \in keys :
                   \A i, j \in DOMAIN MonthGroup(df, key[1], key[2]) :
                       to_period_M(MonthGroup(df, key[1], key[2])[i].time)
                           = to_period_M(MonthGroup(df, key[1], key[2])[j].time)
            /\ \A s \in SeasonRange :
                   Cardinality({key \in keys : key[1] = s}) <= 12
            /\ \A i, j \in DOMAIN df :
                   (/\ df[i].time.month = 12 /\ df[j].time.month = 1
                    /\ df[j].time.year = df[i].time.year + 1)
                       => df[i].season = df[j].season
            /\ {MonthGroup(df, key[1], key[2]) : key \in keys}
                   = {PeriodGroup(df, ym) : ym \in periods}
            /\ Len(ret.by_period) = Len(ret.by_season)
            /\ {<<CalendarYear(r.season, r.month), r.month, Values(r)>> :
                       r \in RowsOf(ret.by_season)}
                   = {<<r.year_month[1], r.year_month[2], Values(r)>> :
                       r \in RowsOf(ret.by_period)}

\* December of one year, January and July of the next: one season with the
\* groups of December and January, another with the group of July
C15_Witness ==
    /\ pc = "returned"
    /\ {to_period_M(args.df_all[k].time) : k \in DOMAIN args.df_all}
           = {<<YEAR_MIN, 12>>, <<YEAR_MIN + 1, 1>>, <<YEAR_MIN + 1, 7>>}
    /\ Len(ret.by_season) = 3
    /\ ret.by_season[1].month = 1 /\ ret.by_season[1].season = YEAR_MIN
    /\ ret.by_season[2].month = 12 /\ ret.by_season[2].season = YEAR_MIN
    /\ ret.by_period[1].year_month = <<YEAR_MIN, 12>>

(***************************************************************************)
(* The averages of the wind rose                                           *)
(***************************************************************************)
\* C16: the averaged sector table is, bin by bin, the unweighted arithmetic
\* mean of that bin over all seasons present in the stream, and the overall
\* average is the unweighted mean of Qt over the yearly results: N times the
\* average is the plain sum over the N seasons.
C16_UnweightedMeans ==
    pc = "done" =>
        LET N == Cardinality(SeasonsPresent)
        IN  /\ Len(sectors_list) = N
            /\ \A i \in 0..15 :
                   /\ avg_sectors[i].den > 0
                   /\ avg_sectors[i].num * N
                          = avg_sectors[i].den
                              * SumOver(DOMAIN sectors_list,
                                        [k \in DOMAIN sectors_list |->
                                            sectors_list[k][i]])
            /\ overall_avg.den > 0
            /\ overall_avg.num * Len(yearly_df)
                   = overall_avg.den
                       * SumOver(DOMAIN yearly_df,
                                 [k \in DOMAIN yearly_df |-> yearly_df[k].Qt])

\* two seasons, one with two windy hours in bin 1 and one with a single
\* hour in bin 0: each bin is averaged over both seasons, and so is Qt
C16_Witness ==
    /\ pc = "done"
    /\ Len(sectors_list) = 2
    /\ \E j, k \in DOMAIN sectors_list :
           /\ sectors_list[k][1] = 2 * HourTerm(3, DT) /\ sectors_list[j][1] = 0
           /\ sectors_list[j][0] = HourTerm(2, DT) /\ sectors_list[k][0] = 0
    /\ avg_sectors[1] = Fraction(2 * HourTerm(3, DT), 2)
    /\ avg_sectors[0] = Fraction(HourTerm(2, DT), 2)
    /\ overall_avg.den = 2
    /\ yearly_df[1].Qt # yearly_df[2].Qt

(***************************************************************************)
(* Two runs on the same stream                                             *)
(***************************************************************************)
\* a run has ended
RunEnded == pc \in {"done", "stopped", "no_results"}

\* C17: idempotence: running the aggregation twice on the same stream and
\* the same (T, F, theta) yields identical yearly results, monthly results
\* and sector tables: when the second run has ended on the downloads the
\* first run ended on, it ended exactly as the first did.
C17_Idempotent ==
    (first_run # <<>> /\ RunEnded /\ cache = first_run[1].stream) =>
        Outcome = first_run[1]

\* a second run has ended on a stream of two seasons with transport
C17_Witness ==
    /\ first_run # <<>>
    /\ pc = "done"
    /\ cache = first_run[1].stream
    /\ Len(yearly_df) = 2
    /\ \A k \in DOMAIN yearly_df : yearly_df[k].Qt > 0
    /\ Len(sectors_list) = 2

(***************************************************************************)
(* A season across two runs whose other seasons differ                     *)
(***************************************************************************)
Reverse(seq) == [i \in 1..Len(seq) |-> seq[Len(seq) + 1 - i]]

\* the season labels of a stream
SeasonsOf(df) == {df[k].season : k \in DOMAIN df}

\* the yearly result of season s
RowFor(results, s) == CHOOSE r \in RowsOf(results) : r.season = <<s, s + 1>>

\* the sector table of season s, the tables being in season order
TableFor(df, tables, s) == tables[Cardinality({x \in SeasonsOf(df) : x <= s})]

\* the seasons that hold the same observations in this run and in the first
SameSeasons ==
    {s \in SeasonsOf(df_all) :
        Labelled(df_all, s) = Labelled(first_run[1].df_all, s)}

\* C18: period independence: the result of a season depends only on that
\* season's observations and (T, F, theta): between two runs in which the
\* observations of other seasons changed, a season with unchanged
\* observations has the same yearly result and the same sector table, and
\* processing the seasons in the reverse order yields the same results.
C18_PeriodIndependence ==
    /\ (first_run # <<>> /\ pc = "done" /\ first_run[1].pc = "done") =>
           \A s \in SameSeasons :
               /\ RowFor(yearly_df, s) = RowFor(first_run[1].yearly_df, s)
               /\ TableFor(df_all, sectors_list, s)
                      = TableFor(first_run[1].df_all,
                                 first_run[1].sectors_list, s)
    /\ YearlyRan =>
           RowsOf(YearlyLoop(Reverse(Sorted(SeasonsOf(df_all))), df_all,
                             T_PAGE, F_PAGE, THETA_PAGE, <<>>))
               = RowsOf(yearly_df)

\* the second run saw a year the first run failed to download: one season
\* kept its observations, with wind, while the stream around it changed
C18_Witness ==
    /\ first_run # <<>> /\ pc = "done" /\ first_run[1].pc = "done"
    /\ df_all # first_run[1].df_all
    /\ Len(yearly_df) = 2
    /\ \E s \in SameSeasons :
           /\ RowFor(yearly_df, s).Qupot > 0
           /\ RowFor(yearly_df, s).Srwe > 0
           /\ s + 1 \in SeasonsOf(df_all)

(***************************************************************************)
(* Calls of compute_snow_transport on arguments outside their ranges       *)
(* (under SpecTransport)                                                   *)
(***************************************************************************)
\* T <= 0, theta outside [0,1], a negative wind speed, or negative
\* precipitation
OutOfRange ==
    \/ args.T <= 0
    \/ args.theta < 0 \/ args.theta > ThetaDen
    \/ ~NonNegative(args.ws)
    \/ args.Swe < 0

\* C20: out-of-range input is rejected: a call with T <= 0 or theta outside
\* [0,1], or a period with negative wind speed or negative precipitation,
\* ends in an error and never in a returned result.
C20_OutOfRangeRejected ==
    (pc = "returned" /\ OutOfRange) => ret.outcome # "return"

(***************************************************************************)
(* Hours with a missing value                                              *)
(***************************************************************************)
\* the weather of an hour of a stream with gaps: calm snowfall; a snowy east
\* wind; and the snowy east wind with one of its four values missing
SnowyWind ==
    [wind_speed_10m |-> 3, wind_direction_10m |-> 90 * DirDen,
     temperature_2m |-> -5 * TempDen, precipitation |-> SweDen]

MissingWeather ==
    { [wind_speed_10m |-> 0, wind_direction_10m |-> 0,
       temperature_2m |-> -5 * TempDen, precipitation |-> SweDen],
      SnowyWind,
      [SnowyWind EXCEPT !.wind_speed_10m = NaN],
      [SnowyWind EXCEPT !.wind_direction_10m = NaN],
      [SnowyWind EXCEPT !.temperature_2m = NaN],
      [SnowyWind EXCEPT !.precipitation = NaN] }

\* a bound of the checked streams: hours of a stream with gaps
MaxGapHours == 2

\* the value v is missing
isna(v) == v = NaN

\* the row has a missing wind speed, temperature or precipitation
MissingInput(row) ==
    isna(row.wind_speed_10m) \/ isna(row.temperature_2m) \/ isna(row.precipitation)

InitMissing ==
    /\ PageIdle
    /\ pc = "call"
    /\ \E S \in {X \in SUBSET DOMAIN HourSlots(YEAR_MIN) :
                    Cardinality(X) <= MaxGapHours} :
         \E w \in [S -> MissingWeather] :
            args = [df |-> WithSeason(Frame(YEAR_MIN, S, w))]
    /\ ret = None

\* line 156: yearly_df = compute_yearly_results(df_all, T, F, theta)
CallYearly ==
    /\ pc = "call"
    /\ pc' = "yearly"
    /\ ret' = [yearly |-> compute_yearly_results(args.df, T_PAGE, F_PAGE, THETA_PAGE)]
    /\ UNCHANGED <<args, pageVars>>

\* lines 227-234: the sector tables of the season groups
CallRose ==
    /\ pc = "call"
    /\ pc' = "rose"
    /\ ret' = [sectors_list |->
                  RoseLoop(Sorted(Unique(Column(args.df, "season"))), args.df, <<>>)]
    /\ UNCHANGED <<args, pageVars>>

NextMissing == CallYearly \/ CallRose

SpecMissing == InitMissing /\ [][NextMissing]_vars

\* C21: a missing (NaN) wind speed, temperature or precipitation is never
\* silently propagated into, or dropped from, the sums of a period: no result
\* row is produced for a season whose hours contain a missing value.
C21_NoResultOverMissing ==
    pc = "yearly" =>
        \A k \in DOMAIN ret.yearly :
            \A j \in DOMAIN SeasonFilter(args.df, ret.yearly[k].season[1]) :
                ~MissingInput(SeasonFilter(args.df, ret.yearly[k].season[1])[j])

\* C22: an hour without a wind direction is left out of the sector tables and
\* treated alike in Qupot: for a stream with such hours the sector tables are
\* still produced, and each table sums to the Qupot of its season's hours.
C22_MissingDirectionExcluded ==
    (pc = "rose" /\ \E k \in DOMAIN args.df : isna(args.df[k].wind_direction_10m)) =>
        /\ ~Raised(ret.sectors_list)
        /\ \A n \in DOMAIN ret.sectors_list :
              LET s == Sorted(Unique(Column(args.df, "season")))[n]
                  InGroup(row) == row.season = s
                  present(row) == ~isna(row.wind_direction_10m)
                  hours == Rows(Rows(args.df, InGroup), present)
              IN  SumOver(DOMAIN ret.sectors_list[n], ret.sectors_list[n])
                      = compute_Qupot(Column(hours, "wind_speed_10m"), DT)

(***************************************************************************)
(* The saturation law                                                      *)
(***************************************************************************)
\* C23: for T > 0 and Qinf >= 0 the saturation law Qt = Qinf*(1 - 0.14^(F/T))
\* gives Qt = 0 exactly at F = 0, a Qt that does not decrease when F grows,
\* and Qt/Qinf > 0.999 at F/T = 50.
\* (ret.Qt counts 1/(QDen*SatDen) and ret.Qinf counts 1/QDen, so Qt/Qinf >
\* 0.999 reads ret.Qt * 1000 > 999 * ret.Qinf * SatDen.)
C23_SaturationEndpoints ==
    (Returned /\ args.T > 0 /\ ret.Qinf >= 0) =>
        /\ args.F = 0 => ret.Qt = 0
        /\ \A F2 \in FInputs(args.T) :
              F2 >= args.F =>
                  compute_snow_transport(args.T, F2, args.theta, args.Swe,
                                         args.ws, DT).Qt >= ret.Qt
        /\ (args.F = 50 * args.T /\ ret.Qinf > 0) =>
              ret.Qt * (1000 \div SatDen) > 999 * ret.Qinf

\* a developed fetch fifty times T behind a positive Qinf
C23_Witness ==
    /\ Returned
    /\ args.T > 0
    /\ args.F = 50 * args.T
    /\ ret.Qinf > 0
    /\ ret.Qt > 0

(***************************************************************************)
(* The wind rose and the yearly results                                    *)
(***************************************************************************)
\* C24: the wind rose and the yearly results range over the same seasons:
\* there are as many sector tables as rows of yearly_df, and the n-th table is
\* computed from exactly the hours that gave the n-th yearly result, the
\* hours labelled with that row's season.
C24_RoseOverYearlySeasons ==
    pc = "done" =>
        /\ Len(sectors_list) = Len(yearly_df)
        /\ \A n \in DOMAIN sectors_list :
              LET hours == Labelled(df_all, yearly_df[n].season[1])
                  ws == Column(hours, "wind_speed_10m")
              IN  /\ hours # <<>>
                  /\ sectors_list[n] =
                         compute_sector_transport(
                             ws, Column(hours, "wind_direction_10m"), DT)
                  /\ yearly_df[n].Qupot = compute_Qupot(ws, DT)
                  /\ yearly_df[n].Srwe = THETA_PAGE * total_Swe(hours)

\* two seasons were averaged, one of them ending with a windy last hour of
\* June
C24_Witness ==
    /\ pc = "done"
    /\ Len(sectors_list) = 2
    /\ \E k \in DOMAIN df_all :
          /\ df_all[k].time.month = 6
          /\ df_all[k].wind_speed_10m > 0
    /\ \E k \in DOMAIN df_all : df_all[k].time.month >= 7

(***************************************************************************)
(* The download loop                                                       *)
(***************************************************************************)
\* C25: in the download loop a year whose download raises is reported and
\* skipped and the loop goes on with the years left; the analysis runs on the
\* frames of the years that were downloaded, in year order; and the script
\* stops at the end of the loop, before any result is computed, exactly when
\* every year of the range failed.
C25_FailedYearsSkipped ==
    LET tried == IF pc = "download" THEN start_year..(year - 1)
                 ELSE start_year..end_year
        failed == {errors[k] : k \in DOMAIN errors}
        ok == Sorted(tried \ failed)
    IN  /\ failed \subseteq tried
        /\ Len(errors) = Cardinality(failed)
        /\ pc = "stopped" <=> (pc # "download" /\ failed = tried)
        /\ tried \ failed \subseteq DOMAIN cache
        /\ dfs = [n \in 1..Len(ok) |-> WithSeason(cache[ok[n]])]
        /\ pc \in {"yearly", "monthly", "rose", "done", "no_results"} =>
               dfs # <<>> /\ df_all = Concat(dfs)

\* the first of two years failed and the run drew its wind rose from the
\* second
C25_Witness ==
    /\ pc = "done"
    /\ end_year > start_year
    /\ errors = <<start_year>>
    /\ Len(dfs) = 1
    /\ yearly_df # <<>>

(***************************************************************************)
(* The session                                                             *)
(***************************************************************************)
\* C26: a snow-drift page goes on to its downloads and results only with
\* session_state.selected_feature_id set and not None (on
\* pages/3_Advanced_Tools/1_Snow_drift.py: one of the ids 6..10); and whenever
\* it goes on, session_state.last_pin is set and is what it downloads for.
C26_GuardBeforeDownload ==
    /\ pc # "AttributeError"
    /\ (pc = "download" /\ page \in SnowPages) =>
          /\ "selected_feature_id" \in DOMAIN session_state
          /\ session_state.selected_feature_id # NoneValue
          /\ page = "1_Snow_drift" =>
                 session_state.selected_feature_id[1] \in 6..10
          /\ "last_pin" \in DOMAIN session_state
          /\ args = [latitude |-> session_state.last_pin[1],
                     longitude |-> session_state.last_pin[2]]

\* the page of the advanced tools goes on with a pin the user has set
C26_Witness ==
    /\ pc = "download"
    /\ page = "1_Snow_drift"
    /\ session_state.last_pin # DEFAULT_PIN
    /\ session_state.selected_feature_id \in {Some(8), Some(7)}

\* C27: whenever a run of a map page has run to its end,
\* session_state.selected_feature_id is find_feature_id of
\* session_state.last_pin (None exactly when no polygon covers the pin): the
\* pin and the selection are updated together.
C27_PinAndSelectionTogether ==
    (pc = "idle" /\ page \in MapPages) =>
        /\ {"last_pin", "selected_feature_id"} \subseteq DOMAIN session_state
        /\ session_state.selected_feature_id =
               find_feature_id(session_state, session_state.last_pin[2],
                               session_state.last_pin[1])
        /\ session_state.selected_feature_id = NoneValue <=>
               \A n \in DOMAIN session_state.polygons :
                   <<session_state.last_pin[2], session_state.last_pin[1]>>
                       \notin session_state.polygons[n].covers

\* a run of 7_map.py ended after clicks had moved the pin from one area to
\* another
C27_Witness ==
    /\ pc = "idle"
    /\ page = "7_map"
    /\ session_state.last_pin = <<604, 53>>
    /\ session_state.selected_feature_id = Some(7)
    /\ out["choropleth_map"] = <<604, 53>>

\* C28: click handling reaches a quiescent state: a run of a map page that
\* finds last_pin equal to the clicked coordinate asks for no further rerun
\* for that last_clicked value.
C28_ClickQuiesces ==
    [][ ( /\ pc = "run"
          /\ page \in MapPages
          /\ page' = page
          /\ "last_pin" \in DOMAIN session_state
          /\ MapKey(page) \in DOMAIN out
          /\ out[MapKey(page)] = session_state.last_pin )
        => pc' = "idle" ]_vars

(***************************************************************************)
(* utils/data_loader.py: download_weather_data                             *)
(***************************************************************************)
\* config.py lines 15-21
DEFAULT_HOURLY_VARIABLES ==
    <<"temperature_2m", "precipitation", "wind_speed_10m", "wind_gusts_10m",
      "wind_direction_10m">>

\* the hourly arguments of the checked calls
HourlyInputs == {DEFAULT_HOURLY_VARIABLES, <<"wind_gusts_10m">>}

\* the places of the checked calls (latitude, longitude in tenths of a degree)
PlaceInputs == {<<599, 108>>, <<604, 53>>}

\* a bound of the checked sessions: HTTP requests
MaxRequests == 3

\* line 32: f"weather_{latitude}_{longitude}_{year}"
cache_key(latitude, longitude, yr) == <<"weather", latitude, longitude, yr>>

\* lines 35-42: the query of the request; the hourly list is joined
params(latitude, longitude, yr, hourly) ==
    [latitude |-> latitude, longitude |-> longitude,
     start_date |-> <<yr, 1, 1>>, end_date |-> <<yr, 12, 31>>,
     hourly |-> hourly]

\* lines 45-48: the frame built from a response: the time column and one
\* column per requested variable, holding the values of the place and year
ResponseFrame(q) ==
    [columns |-> <<"time">> \o q.hourly,
     latitude |-> q.latitude, longitude |-> q.longitude,
     year |-> q.start_date[1]]

loaderUnchanged == <<start_year, end_year, year, dfs, df_all, yearly_df,
                     monthly_df, sectors_list, avg_sectors, overall_avg,
                     first_run, errors, out, page, reruns>>

InitLoader ==
    /\ PageIdle
    /\ pc = "call"
    /\ args = None /\ ret = None

\* a call that st.cache_data answers from its cache: the body does not run
CallCached ==
    /\ pc \in {"call", "returned"}
    /\ \E place \in PlaceInputs, hourly \in HourlyInputs :
          LET a == [latitude |-> place[1], longitude |-> place[2],
                    year |-> YEAR_MIN, hourly |-> hourly]
          IN  /\ a \in DOMAIN cache
              /\ args' = a
              /\ ret' = [outcome |-> "return", df |-> cache[a]]
    /\ pc' = "returned"
    /\ UNCHANGED <<cache, session_state, http_log, loaderUnchanged>>

\* lines 24-50 on a miss of st.cache_data: the body runs; it requests the
\* data unless the session holds the key, and its return value is cached
CallDownload ==
    /\ pc \in {"call", "returned"}
    /\ \E place \in PlaceInputs, hourly \in HourlyInputs :
          LET a == [latitude |-> place[1], longitude |-> place[2],
                    year |-> YEAR_MIN, hourly |-> hourly]
              key == cache_key(a.latitude, a.longitude, a.year)
              q == params(a.latitude, a.longitude, a.year, a.hourly)
          IN  /\ a \notin DOMAIN cache
              /\ args' = a
              /\ IF key \in DOMAIN session_state
                 THEN UNCHANGED <<session_state, http_log>>
                 ELSE /\ Len(http_log) < MaxRequests
                      /\ http_log' = Append(http_log, q)
                      /\ session_state' = Put(session_state, key, ResponseFrame(q))
              /\ ret' = [outcome |-> "return", df |-> session_state'[key]]
              /\ cache' = Put(cache, a, session_state'[key])
    /\ pc' = "returned"
    /\ UNCHANGED loaderUnchanged

\* lines 43-44: the request times out or raise_for_status() raises; nothing
\* is stored, neither in the session nor by st.cache_data
CallDownloadRaises ==
    /\ pc \in {"call", "returned"}
    /\ \E place \in PlaceInputs, hourly \in HourlyInputs :
          LET a == [latitude |-> place[1], longitude |-> place[2],
                    year |-> YEAR_MIN, hourly |-> hourly]
              key == cache_key(a.latitude, a.longitude, a.year)
          IN  /\ a \notin DOMAIN cache
              /\ key \notin DOMAIN session_state
              /\ Len(http_log) < MaxRequests
              /\ args' = a
              /\ http_log' = Append(http_log,
                                    params(a.latitude, a.longitude, a.year, a.hourly))
    /\ ret' = Raise("HTTPError")
    /\ pc' = "returned"
    /\ UNCHANGED <<cache, session_state, loaderUnchanged>>

NextLoader == CallCached \/ CallDownload \/ CallDownloadRaises

SpecLoader == InitLoader /\ [][NextLoader]_vars

\* C29: download_weather_data returns a frame holding the hourly variables
\* asked for in the call, also after a call of the same session with the same
\* (latitude, longitude, year) and another hourly list; and for one
\* (latitude, longitude, year, hourly) at most one HTTP request is made.
C29_FrameHoldsRequestedVariables ==
    /\ Returned =>
          /\ ret.df.columns = <<"time">> \o args.hourly
          /\ ret.df.latitude = args.latitude
          /\ ret.df.longitude = args.longitude
          /\ ret.df.year = args.year
    /\ \A i, j \in DOMAIN http_log : http_log[i] = http_log[j] => i = j

(***************************************************************************)
(* utils/data_loader.py: download_weather_data_chunked                     *)
(***************************************************************************)
\* A date string "YYYY-MM-DD" is the tuple <<y, m, d>>; a datetime is the
\* count of its day, day 1 being January 1 of EpochYear.
EpochYear == YEAR_MIN + 2

IsLeap(y) == (y % 4 = 0 /\ y % 100 # 0) \/ y % 400 = 0

DaysInMonth(y, m) ==
    IF m = 2 THEN (IF IsLeap(y) THEN 29 ELSE 28)
    ELSE IF m \in {4, 6, 9, 11} THEN 30 ELSE 31

DaysInYear(y) == IF IsLeap(y) THEN 366 ELSE 365

RECURSIVE DaysBeforeYear(_)
DaysBeforeYear(y) ==
    IF y <= EpochYear THEN 0 ELSE DaysBeforeYear(y - 1) + DaysInYear(y - 1)

RECURSIVE DaysBeforeMonth(_, _)
DaysBeforeMonth(y, m) ==
    IF m <= 1 THEN 0 ELSE DaysBeforeMonth(y, m - 1) + DaysInMonth(y, m - 1)

\* lines 77-78: datetime.fromisoformat of a date string
fromisoformat(date_string) ==
    DaysBeforeYear(date_string[1])
        + DaysBeforeMonth(date_string[1], date_string[2]) + date_string[3]

\* lines 91-92: strftime("%Y-%m-%d"), found by walking the years and months
RECURSIVE FormatFrom(_, _, _)
FormatFrom(n, y, m) ==
    IF m = 1 /\ n > DaysInYear(y) THEN FormatFrom(n - DaysInYear(y), y + 1, 1)
    ELSE IF n > DaysInMonth(y, m) THEN FormatFrom(n - DaysInMonth(y, m), y, m + 1)
    ELSE <<y, m, n>>

strftime(n) == FormatFrom(n, EpochYear, 1)

\* line 81: chunk_size = timedelta(days=30)
CHUNK_DAYS == 30

Min(a, b) == IF a <= b THEN a ELSE b

\* chunks that reach one day further
ChunkEndLong(current_start, end) == Min(current_start + CHUNK_DAYS + 1, end)

\* line 85: current_end = min(current_start + chunk_size, end)
ChunkEnd(current_start, end) == Min(current_start + CHUNK_DAYS, end)

\* lines 84-109: the while loop from current_start on, with the requests made
\* so far; the request number fails (if any) is answered with another status
\* than 200
RECURSIVE ChunkLoop(_, _, _, _)
ChunkLoop(current_start, end, requests, fails) ==
    IF ~(current_start <= end)
    THEN [outcome |-> "return", requests |-> requests]
    ELSE LET current_end == ChunkEnd(current_start, end)
             q == [start_date |-> strftime(current_start),
                   end_date |-> strftime(current_end)]
         IN  IF Len(requests) + 1 = fails
             THEN [outcome |-> "ValueError", requests |-> Append(requests, q)]
             ELSE ChunkLoop(current_end + 1, end, Append(requests, q), fails)

\* the frame of a response: the archive answers with the hours of every day
\* from start_date to end_date, both included; the model keeps one row a day
ChunkFrame(q) ==
    [k \in 1..(fromisoformat(q.end_date) - fromisoformat(q.start_date) + 1) |->
        strftime(fromisoformat(q.start_date) + k - 1)]

\* a bound of the checked calls: days from start_date to end_date
MaxSpanDays == 70

\* the start dates of the checked calls: around the turn of the year and
\* before a leap day
StartDates ==
    {<<EpochYear, 12, d>> : d \in 20..31}
        \cup {<<EpochYear + 1, 1, d>> : d \in 1..10}
        \cup {<<EpochYear + 1, 2, d>> : d \in 27..29}

InitChunked ==
    /\ PageIdle
    /\ pc = "call"
    /\ \E start_date \in StartDates, k \in (-2)..MaxSpanDays :
          args = [start_date |-> start_date,
                  end_date |-> strftime(fromisoformat(start_date) + k)]
    /\ ret = None

\* lines 59-116
CallChunked ==
    /\ pc = "call"
    /\ \E fails \in 0..(MaxSpanDays \div CHUNK_DAYS + 1) :
          LET start == fromisoformat(args.start_date)
              end == fromisoformat(args.end_date)
              r == ChunkLoop(start, end, <<>>, fails)
              df_list == [n \in DOMAIN r.requests |-> ChunkFrame(r.requests[n])]
          IN  /\ fails = 0 \/ r.outcome = "ValueError"
              /\ http_log' = r.requests
              /\ ret' = IF r.outcome = "return"
                        THEN [outcome |-> "return", df |-> Concat(df_list)]
                        ELSE Raise("ValueError")
    /\ pc' = "returned"
    /\ UNCHANGED <<args, cache, session_state, loaderUnchanged>>

NextChunked == CallChunked

SpecChunked == InitChunked /\ [][NextChunked]_vars

\* C30: download_weather_data_chunked ends for every start_date and end_date;
\* when every request succeeds the date ranges it requests are consecutive,
\* at most 31 days long, and hold each day from start_date to end_date exactly
\* once; with start_date after end_date it makes no request and returns an
\* empty frame.
C30_ChunksCoverEachDayOnce ==
    Returned =>
        LET start == fromisoformat(args.start_date)
            end == fromisoformat(args.end_date)
            first(n) == fromisoformat(http_log[n].start_date)
            last(n) == fromisoformat(http_log[n].end_date)
        IN  /\ \A n \in DOMAIN http_log :
                  /\ first(n) <= last(n)
                  /\ last(n) - first(n) + 1 <= 31
                  /\ n > 1 => first(n) = last(n - 1) + 1
            /\ \A d \in (start - 2)..(end + 2) :
                  Cardinality({n \in DOMAIN http_log :
                                   first(n) <= d /\ d <= last(n)})
                      = (IF start <= d /\ d <= end THEN 1 ELSE 0)
            /\ ret.df = [k \in 1..(end - start + 1) |-> strftime(start + k - 1)]
            /\ start > end => http_log = <<>> /\ ret.df = <<>>

\* three requests, the last of them across a leap day into March
C30_Witness ==
    /\ Returned
    /\ Len(http_log) = 3
    /\ args.end_date[2] = 3
    /\ http_log[3].start_date[2] = 2
    /\ Len(ret.df) > 2 * 31

====
